---- MODULE Spec2Model ----
(***************************************************************************)
(* parse_csv (src/stdlib/parse_csv.rs): one invocation validates the       *)
(* delimiter argument, builds a quick_csv reader over the value bytes,     *)
(* takes the first record of the reader and converts its columns.          *)
(* The reader itself (quick_csv) is not part of the repository's sources;  *)
(* its tokenizer is modelled from section 4.2 of the specification.        *)
(***************************************************************************)
EXTENDS Integers, Sequences, FiniteSets, TLC

VARIABLES value, delimiter, pc, csv, record, result, seen

vars == <<value, delimiter, pc, csv, record, result, seen>>

----------------------------------------------------------------------------
(* Bytes *)

Quote == 34
Comma == 44
LF == 10
CR == 13
Backslash == 92
LetterA == 97

\* the four bytes of the UTF-8 encoding of U+1F3B5
MusicalNote == <<240, 159, 142, 181>>

\* bounds of the model
MaxLen == 5
MaxCallLen == 2

Bytes == {LetterA, Comma, Quote, LF, CR, Backslash}
CallBytes == {LetterA, Quote}

SeqsUpTo(S, n) == UNION {[1..k -> S] : k \in 0..n}

Values == SeqsUpTo(Bytes, MaxLen)
Delimiters == {<<>>, <<Comma>>, <<LetterA>>, <<Comma, Comma>>, MusicalNote}

CallValues == SeqsUpTo(CallBytes, MaxCallLen)
CallDelimiters == {<<>>, <<Comma>>, <<LetterA>>}

----------------------------------------------------------------------------
(* Outcomes: Resolved = Result<Value, ExpressionError> *)

Ok(fields) == [kind |-> "ok", fields |-> fields, msg |-> ""]
Err(msg) == [kind |-> "err", fields |-> <<>>, msg |-> msg]

NoResult == [kind |-> "none", fields |-> <<>>, msg |-> ""]
NoCsv == [buf |-> <<>>, delimiter |-> 0, pos |-> 0, built |-> FALSE]
NoCall == [made |-> FALSE, value |-> <<>>, delimiter |-> <<>>, result |-> NoResult]

InvalidDelimiterMsg == "delimiter must be a single character"
InvalidRecordPrefix == "invalid csv record: "
UnexpectedQuoteMsg == "A CSV column has a quote but the entire column value is not quoted"

----------------------------------------------------------------------------
(* Delimiter validation, parse_csv lines 7-11 *)

DelimiterInvalidLoose(d) == Len(d) = 0

DelimiterInvalid(d) == Len(d) # 1

----------------------------------------------------------------------------
(* The reader: Csv::from_reader(Cursor::new(bytes)).delimiter(byte) *)

from_reader_default_delimiter(bytes, d) ==
    [buf |-> bytes, delimiter |-> Comma, pos |-> 0, built |-> TRUE]

\* the reader is given only the first physical line of the buffer
from_reader_first_line(bytes, d) ==
    LET cut == {k \in 1..Len(bytes) : bytes[k] = LF}
        end == IF cut = {} THEN Len(bytes) ELSE (CHOOSE k \in cut : \A m \in cut : k <= m)
    IN  [buf |-> SubSeq(bytes, 1, end), delimiter |-> d, pos |-> 0, built |-> TRUE]

from_reader_reused(bytes, d) ==
    [buf |-> bytes, delimiter |-> d,
     pos |-> IF csv.built /\ csv.pos <= Len(bytes) THEN csv.pos ELSE 0,
     built |-> TRUE]

from_reader(bytes, d) ==
    [buf |-> bytes, delimiter |-> d, pos |-> 0, built |-> TRUE]

----------------------------------------------------------------------------
(* Tokenizer, specification section 4.2.  A raw field is its accumulated   *)
(* content and whether it was a quoted field still open at end-of-input.   *)

RawField(content, open) == [content |-> content, open |-> open]

RowOk(row, used) == [kind |-> "row", row |-> row, used |-> used, msg |-> ""]
RowErr(msg, used) == [kind |-> "err", row |-> <<>>, used |-> used, msg |-> msg]
RowNone == [kind |-> "none", row |-> <<>>, used |-> 0, msg |-> ""]

RECURSIVE Scan(_, _, _, _, _, _)
Scan(s, d, i, st, cur, row) ==
    LET eoi == i > Len(s)
        b == IF eoi THEN -1 ELSE s[i]
        isCRLF == ~eoi /\ b = CR /\ i + 1 <= Len(s) /\ s[i + 1] = LF
        term == ~eoi /\ (b = LF \/ isCRLF)
        termEnd == IF isCRLF THEN i + 1 ELSE i
        done(open) == Append(row, RawField(cur, open))
    IN  CASE st = "FieldStart" ->
               IF ~eoi /\ b = Quote
               THEN Scan(s, d, i + 1, "QuotedField", <<>>, row)
               ELSE Scan(s, d, i, "UnquotedField", <<>>, row)
          [] st = "UnquotedField" ->
               IF eoi THEN RowOk(done(FALSE), Len(s))
               ELSE IF term THEN RowOk(done(FALSE), termEnd)
               ELSE IF b = d THEN Scan(s, d, i + 1, "FieldStart", <<>>, done(FALSE))
               ELSE IF b = Quote THEN RowErr(UnexpectedQuoteMsg, i)
               ELSE Scan(s, d, i + 1, "UnquotedField", Append(cur, b), row)
          [] st = "QuotedField" ->
               IF eoi THEN RowOk(done(TRUE), Len(s))
               ELSE IF b = Quote THEN Scan(s, d, i + 1, "QuoteSeen", cur, row)
               ELSE Scan(s, d, i + 1, "QuotedField", Append(cur, b), row)
          [] st = "QuoteSeen" ->
               IF eoi THEN RowOk(done(FALSE), Len(s))
               ELSE IF b = Quote
               THEN Scan(s, d, i + 1, "QuotedField", Append(cur, Quote), row)
               ELSE IF b = d THEN Scan(s, d, i + 1, "FieldStart", <<>>, done(FALSE))
               ELSE IF term THEN RowOk(done(FALSE), termEnd)
               ELSE Scan(s, d, i + 1, "Discard", <<>>, done(FALSE))
          [] st = "Discard" ->
               IF eoi THEN RowOk(row, Len(s))
               ELSE IF term THEN RowOk(row, termEnd)
               ELSE IF b = d THEN Scan(s, d, i + 1, "FieldStart", <<>>, row)
               ELSE Scan(s, d, i + 1, "Discard", <<>>, row)

\* Iterator::next of the reader: no record once the buffer is exhausted
CsvNext(c) ==
    IF c.pos >= Len(c.buf) THEN RowNone
    ELSE Scan(c.buf, c.delimiter, c.pos + 1, "FieldStart", <<>>, <<>>)

Advance(c, r) == IF r.kind = "none" THEN c ELSE [c EXCEPT !.pos = r.used]

\* Row::bytes_columns: the unterminated quoted field loses its final byte
DropLast(s) == SubSeq(s, 1, Len(s) - 1)

Column(f) == IF f.open THEN DropLast(f.content) ELSE f.content

bytes_columns(row) == [k \in 1..Len(row) |-> Column(row[k])]

----------------------------------------------------------------------------
(* parse_csv lines 16-19: csv.into_iter().next().transpose().map_err(..)   *)

RECURSIVE last_record(_)
last_record(c) ==
    LET r == CsvNext(c)
    IN  IF r.kind # "row" THEN r
        ELSE LET rest == last_record(Advance(c, r))
             IN  IF rest.kind = "none" THEN r ELSE rest

first_record(c) == CsvNext(c)

map_err_bare(r) == r

map_err(r) ==
    IF r.kind = "err" THEN [r EXCEPT !.msg = InvalidRecordPrefix \o r.msg] ELSE r

(* parse_csv lines 20-31: the columns of the record, or the default (empty) *)
(* array when the reader produced no record                                 *)

TrimQuote(f) ==
    LET a == IF f # <<>> /\ f[1] = Quote THEN Tail(f) ELSE f
    IN  IF a # <<>> /\ a[Len(a)] = Quote THEN SubSeq(a, 1, Len(a) - 1) ELSE a

collect_trim_quotes(r) ==
    IF r.kind = "row"
    THEN Ok([k \in 1..Len(r.row) |-> TrimQuote(bytes_columns(r.row)[k])])
    ELSE Ok(<<>>)

\* every column loses its trailing carriage returns and line feeds
RECURSIVE TrimEnd(_)
TrimEnd(f) ==
    IF f # <<>> /\ f[Len(f)] \in {CR, LF} THEN TrimEnd(SubSeq(f, 1, Len(f) - 1)) ELSE f

collect_trim_end(r) ==
    IF r.kind = "row"
    THEN Ok([k \in 1..Len(r.row) |-> TrimEnd(bytes_columns(r.row)[k])])
    ELSE Ok(<<>>)

collect_skip_empty(r) ==
    IF r.kind = "row"
    THEN Ok(SelectSeq(bytes_columns(r.row), LAMBDA f : f # <<>>))
    ELSE Ok(<<>>)

collect_one_empty(r) ==
    IF r.kind = "row" THEN Ok(bytes_columns(r.row)) ELSE Ok(<<<<>>>>)

collect(r) ==
    IF r.kind = "row" THEN Ok(bytes_columns(r.row)) ELSE Ok(<<>>)

\* parse_csv as a function of its two arguments
parse_csv(v, d) ==
    IF DelimiterInvalid(d) THEN Err(InvalidDelimiterMsg)
    ELSE LET r == map_err(first_record(from_reader(v, d[1])))
         IN  IF r.kind = "err" THEN Err(r.msg) ELSE collect(r)

----------------------------------------------------------------------------
(* One invocation of parse_csv, statement by statement *)

Validate ==
    /\ pc = "validate"
    /\ IF DelimiterInvalid(delimiter)
       THEN /\ result' = Err(InvalidDelimiterMsg)
            /\ pc' = "done"
       ELSE /\ result' = result
            /\ pc' = "read"
    /\ UNCHANGED <<value, delimiter, csv, record, seen>>

ReadRecord ==
    /\ pc = "read"
    /\ LET c == from_reader(value, delimiter[1])
           r == map_err(first_record(c))
       IN  /\ csv' = Advance(c, r)
           /\ record' = r
           /\ IF r.kind = "err"
              THEN /\ result' = Err(r.msg)
                   /\ pc' = "done"
              ELSE /\ result' = result
                   /\ pc' = "collect"
    /\ UNCHANGED <<value, delimiter, seen>>

Collect ==
    /\ pc = "collect"
    /\ result' = collect(record)
    /\ pc' = "done"
    /\ UNCHANGED <<value, delimiter, csv, record, seen>>

\* ParseCsvFn::resolve invoked again with arguments v, d; keep records the
\* call just finished as the one later calls are compared with
Resolve(v, d, keep) ==
    /\ pc = "done"
    /\ value' = v
    /\ delimiter' = d
    /\ pc' = "validate"
    /\ record' = RowNone
    /\ result' = NoResult
    /\ seen' = IF keep
               THEN [made |-> TRUE, value |-> value, delimiter |-> delimiter,
                     result |-> result]
               ELSE seen
    /\ UNCHANGED csv

Start(v, d) ==
    /\ value = v
    /\ delimiter = d
    /\ pc = "validate"
    /\ csv = NoCsv
    /\ record = RowNone
    /\ result = NoResult
    /\ seen = NoCall

Init == \E v \in Values, d \in Delimiters : Start(v, d)

Next == Validate \/ ReadRecord \/ Collect

Spec == Init /\ [][Next]_vars

InitCalls == \E v \in CallValues, d \in CallDelimiters : Start(v, d)

NextCalls ==
    \/ Validate
    \/ ReadRecord
    \/ Collect
    \/ \E v \in CallValues, d \in CallDelimiters, keep \in BOOLEAN : Resolve(v, d, keep)

SpecCalls == InitCalls /\ [][NextCalls]_vars

\* parse_csv is synchronous: a call that has started runs to its return
SpecCallsFair ==
    SpecCalls /\ WF_vars(Validate) /\ WF_vars(ReadRecord) /\ WF_vars(Collect)

----------------------------------------------------------------------------
(* Vocabulary of the properties *)

Range(s) == {s[k] : k \in 1..Len(s)}

Count(s, b) == Cardinality({k \in 1..Len(s) : s[k] = b})

Finished == pc = "done"

ValidDelimiter == Len(delimiter) = 1

\* splitting on a byte, empty pieces kept
RECURSIVE Split(_, _)
Split(s, d) ==
    IF \A k \in 1..Len(s) : s[k] # d THEN <<s>>
    ELSE LET p == CHOOSE k \in 1..Len(s) : s[k] = d /\ \A m \in 1..(k - 1) : s[m] # d
         IN  <<SubSeq(s, 1, p - 1)>> \o Split(SubSeq(s, p + 1, Len(s)), d)

Plain(s) == Range(s) \cap {Quote, LF, CR} = {}

\* the first record of s as the tokenizer delimits it
FirstRecord(s, d) == Scan(s, d, 1, "FieldStart", <<>>, <<>>)

Tails == SeqsUpTo(Bytes, 2)

Min(S) == CHOOSE x \in S : \A y \in S : x <= y

\* position of the quote that closes a quoted field whose content starts at
\* p (two adjacent quotes are content), 0 when there is none
RECURSIVE CloseFrom(_, _)
CloseFrom(s, p) ==
    IF p > Len(s) THEN 0
    ELSE IF s[p] # Quote THEN CloseFrom(s, p + 1)
    ELSE IF p + 1 <= Len(s) /\ s[p + 1] = Quote THEN CloseFrom(s, p + 2)
    ELSE p

\* every pair of adjacent quotes, taken left to right, becomes one quote
RECURSIVE Collapse(_)
Collapse(body) ==
    IF body = <<>> THEN <<>>
    ELSE IF Len(body) >= 2 /\ body[1] = Quote /\ body[2] = Quote
         THEN <<Quote>> \o Collapse(SubSeq(body, 3, Len(body)))
         ELSE <<body[1]>> \o Collapse(Tail(body))

FirstOf(s, from, stops) ==
    LET hits == {e \in from..Len(s) : s[e] \in stops}
    IN  IF hits = {} THEN 0 ELSE Min(hits)

\* position of the delimiter that ends the field starting at j, 0 when the
\* field is the last of the record, or is not well formed (a quote inside an
\* unquoted field, bytes between a closing quote and the delimiter)
FieldEnd(s, d, j) ==
    IF j > Len(s) THEN 0
    ELSE IF s[j] # Quote
         THEN LET e == FirstOf(s, j, {d, LF, Quote})
              IN  IF e # 0 /\ s[e] = d THEN e ELSE 0
         ELSE LET c == CloseFrom(s, j + 1)
              IN  IF c # 0 /\ c < Len(s) /\ s[c + 1] = d THEN c + 1 ELSE 0

RECURSIVE FieldStartsFrom(_, _, _)
FieldStartsFrom(s, d, j) ==
    {j} \cup (IF FieldEnd(s, d, j) = 0 THEN {}
              ELSE FieldStartsFrom(s, d, FieldEnd(s, d, j) + 1))

\* positions at which the fields of the first record start
FieldStarts(s, d) == IF s = <<>> THEN {} ELSE FieldStartsFrom(s, d, 1)

FieldIndex(s, d, k) == Cardinality({x \in FieldStarts(s, d) : x <= k})

QuotedStarts(s, d) == {k \in FieldStarts(s, d) : k <= Len(s) /\ s[k] = Quote}

\* the byte at p ends a field or the record
EndsField(s, d, p) ==
    \/ p > Len(s)
    \/ s[p] \in {d, LF}
    \/ s[p] = CR /\ p + 1 <= Len(s) /\ s[p + 1] = LF

----------------------------------------------------------------------------
\* C1: the delimiter argument is accepted exactly when it is one byte long;
\* any other length ends the call with "delimiter must be a single
\* character" before a reader is built or a byte of the value is tokenized,
\* whatever the value holds.
C1_DelimiterLength ==
    Finished =>
        /\ (Len(delimiter) # 1) <=> (result = Err(InvalidDelimiterMsg))
        /\ Len(delimiter) # 1 => ~csv.built /\ record = RowNone
        /\ Len(delimiter) = 1 => csv.built /\ csv.delimiter = delimiter[1]

C1_Witness ==
    /\ Finished
    /\ delimiter = MusicalNote
    /\ parse_csv(value, <<Comma>>).kind = "err"
    /\ result = Err(InvalidDelimiterMsg)

\* C2 as stated: a value without quote and line-terminator bytes yields the
\* pieces of splitting it on the delimiter byte, one more than there are
\* delimiter bytes.
C2_SplitAnyValue ==
    (Finished /\ ValidDelimiter /\ Plain(value)) =>
        /\ result = Ok(Split(value, delimiter[1]))
        /\ Len(result.fields) = Count(value, delimiter[1]) + 1

\* C2 amended: the same for every non-empty value.
C2_SplitNonEmpty ==
    (Finished /\ ValidDelimiter /\ Plain(value) /\ value # <<>>) =>
        /\ result = Ok(Split(value, delimiter[1]))
        /\ Len(result.fields) = Count(value, delimiter[1]) + 1

C2_Witness ==
    /\ Finished
    /\ delimiter = <<LetterA>>
    /\ Plain(value)
    /\ Len(value) = MaxLen
    /\ value[1] = LetterA /\ value[MaxLen] = LetterA
    /\ \E k \in 1..(MaxLen - 1) : value[k] = LetterA /\ value[k + 1] = LetterA
    /\ Comma \in Range(value)
    /\ result.kind = "ok" /\ Len(result.fields) >= 4

\* C3: when the first record ends at a line terminator before the end of
\* the value, the outcome is the same whatever bytes follow the terminator.
C3_OnlyFirstRecord ==
    (Finished /\ ValidDelimiter) =>
        LET r == FirstRecord(value, delimiter[1])
        IN  (r.kind = "row" /\ r.used < Len(value)) =>
                /\ value[r.used] = LF
                /\ \A tail \in Tails :
                     parse_csv(SubSeq(value, 1, r.used) \o tail, delimiter) = result

C3_Witness ==
    /\ Finished
    /\ ValidDelimiter
    /\ LET r == FirstRecord(value, delimiter[1])
       IN  /\ r.kind = "row"
           /\ r.used < Len(value)
           /\ parse_csv(SubSeq(value, r.used + 1, Len(value)), delimiter).kind = "err"
    /\ result.kind = "ok"
    /\ Len(result.fields) = 2

\* C4: in a quoted field closed by a quote that is followed by the
\* delimiter, a line terminator or end-of-input, the delimiter and
\* line-terminator bytes between the quotes are content: the returned field
\* is exactly the bytes between the quotes, and the record goes on after it.
C4_QuotedFieldLiteral ==
    (Finished /\ ValidDelimiter) =>
        \A k \in QuotedStarts(value, delimiter[1]) :
            LET d == delimiter[1]
                c == CloseFrom(value, k + 1)
                body == SubSeq(value, k + 1, c - 1)
                n == FieldIndex(value, d, k)
            IN  (c # 0 /\ EndsField(value, d, c + 1) /\ Quote \notin Range(body)) =>
                    /\ c = Len(value) => result.kind = "ok" /\ Len(result.fields) = n
                    /\ result.kind = "ok" =>
                          /\ Len(result.fields) >= n
                          /\ result.fields[n] = body
                          /\ (c < Len(value) /\ value[c + 1] = d) => Len(result.fields) > n

C4_Witness ==
    /\ Finished
    /\ delimiter = <<Comma>>
    /\ value = <<Quote, Comma, LF, Quote, Comma>>
    /\ result = Ok(<< <<Comma, LF>>, <<>> >>)

\* C5 as stated: each pair of adjacent quotes inside a quoted field shows as
\* one quote byte in the returned field.
C5_PairsAlwaysKept ==
    (Finished /\ ValidDelimiter /\ result.kind = "ok") =>
        \A k \in QuotedStarts(value, delimiter[1]) :
            LET c == CloseFrom(value, k + 1)
                inner == SubSeq(value, k + 1, IF c = 0 THEN Len(value) ELSE c - 1)
                n == FieldIndex(value, delimiter[1], k)
            IN  (c = 0 \/ EndsField(value, delimiter[1], c + 1)) =>
                    Count(result.fields[n], Quote) = Count(Collapse(inner), Quote)

\* C5 amended: pairs of adjacent quotes, taken left to right, do not close
\* the field and each becomes one quote byte of its content; a backslash is
\* an ordinary byte.  A field closed by a later quote is returned with that
\* content; a field still open at end-of-input is returned without the last
\* byte of that content.
C5_PairsCollapse ==
    (Finished /\ ValidDelimiter /\ result.kind = "ok") =>
        \A k \in QuotedStarts(value, delimiter[1]) :
            LET c == CloseFrom(value, k + 1)
                inner == SubSeq(value, k + 1, IF c = 0 THEN Len(value) ELSE c - 1)
                n == FieldIndex(value, delimiter[1], k)
            IN  (/\ Range(inner) \cap {Quote, Backslash} # {}
                 /\ c = 0 \/ EndsField(value, delimiter[1], c + 1)) =>
                    /\ Len(result.fields) >= n
                    /\ result.fields[n] =
                          IF c = 0 THEN DropLast(Collapse(inner)) ELSE Collapse(inner)

C5_Witness ==
    /\ Finished
    /\ delimiter = <<Comma>>
    /\ value = <<Quote, Backslash, Quote, Quote, Quote>>
    /\ result = Ok(<< <<Backslash, Quote>> >>)

\* C6: a quote inside an unquoted field of the first record, after the
\* field's first byte, ends the call with "invalid csv record: " followed by
\* the reader's reason, and no field is returned.
C6_QuoteInUnquotedField ==
    (Finished /\ ValidDelimiter) =>
        LET d == delimiter[1]
            bad == \E k \in FieldStarts(value, d) : \E i \in (k + 1)..Len(value) :
                      /\ value[i] = Quote
                      /\ \A m \in k..(i - 1) : value[m] \notin {d, LF, Quote}
        IN  bad => /\ result = Err(InvalidRecordPrefix \o UnexpectedQuoteMsg)
                   /\ result.fields = <<>>

C6_Witness ==
    /\ Finished
    /\ delimiter = <<Comma>>
    /\ value = <<LetterA, Comma, LetterA, Quote, LetterA>>
    /\ result.kind = "err"
    /\ result.msg = "invalid csv record: A CSV column has a quote but the entire column value is not quoted"

\* C7: a quoted field with no quote after its opening quote is the last
\* field of a successful result, and is returned as the bytes after the
\* opening quote without the last of them.
C7_OpenQuotedField ==
    (Finished /\ ValidDelimiter) =>
        \A k \in QuotedStarts(value, delimiter[1]) :
            LET rest == SubSeq(value, k + 1, Len(value))
                n == FieldIndex(value, delimiter[1], k)
            IN  /\ CloseFrom(value, k + 1) = 0 =>
                      result.kind = "ok" /\ Len(result.fields) = n
                /\ Quote \notin Range(rest) =>
                      result.fields[n] = SubSeq(rest, 1, Len(rest) - 1)

C7_Witness ==
    /\ Finished
    /\ delimiter = <<Comma>>
    /\ value = <<LetterA, Comma, Quote, LetterA, Comma>>
    /\ result = Ok(<< <<LetterA>>, <<LetterA>> >>)

\* C8: the empty value with a one-byte delimiter yields the empty array.
C8_EmptyValue ==
    (Finished /\ ValidDelimiter /\ value = <<>>) => result = Ok(<<>>)

C8_Witness ==
    /\ Finished
    /\ delimiter = <<LetterA>>
    /\ value = <<>>
    /\ record = RowNone
    /\ csv.built
    /\ result.kind = "ok"

\* a returned call holds either an array of fields or an error message,
\* never both, and a call with the arguments of an earlier call holds what
\* that call returned, whatever was called in between
C9_Returned ==
    Finished =>
        /\ result.kind \in {"ok", "err"}
        /\ result.kind = "ok" => result.msg = ""
        /\ result.kind = "err" => result.fields = <<>> /\ result.msg # ""
        /\ (seen.made /\ seen.value = value /\ seen.delimiter = delimiter) =>
              result = seen.result

TermAt(s, e) ==
    /\ e <= Len(s)
    /\ \/ s[e] = LF
       \/ s[e] = CR /\ e + 1 <= Len(s) /\ s[e + 1] = LF

\* first position from k on that holds the delimiter, a quote or the start
\* of a line terminator, 0 when there is none
UnquotedStop(s, d, k) ==
    LET hits == {e \in k..Len(s) : s[e] \in {d, Quote} \/ TermAt(s, e)}
    IN  IF hits = {} THEN 0 ELSE Min(hits)

\* C11: outside a quoted field the record ends at the first line feed or
\* carriage return followed by a line feed; the last field is the bytes
\* before that terminator, and a carriage return with no line feed right
\* after it does not end anything and is returned as content of its field.
C11_LineTerminators ==
    (Finished /\ ValidDelimiter) =>
        LET d == delimiter[1]
        IN  /\ \A k \in FieldStarts(value, d) \ QuotedStarts(value, d) :
                  LET e == UnquotedStop(value, d, k)
                      n == FieldIndex(value, d, k)
                      upto == IF e = 0 THEN Len(value) ELSE e - 1
                  IN  /\ (e = 0 \/ TermAt(value, e)) =>
                            /\ result.kind = "ok"
                            /\ Len(result.fields) = n
                            /\ result.fields[n] = SubSeq(value, k, upto)
                      /\ (e # 0 /\ value[e] = d /\ result.kind = "ok") =>
                            /\ Len(result.fields) > n
                            /\ result.fields[n] = SubSeq(value, k, upto)
            /\ \A k \in QuotedStarts(value, d) :
                  LET c == CloseFrom(value, k + 1)
                  IN  (c # 0 /\ TermAt(value, c + 1)) =>
                          /\ result.kind = "ok"
                          /\ Len(result.fields) = FieldIndex(value, d, k)

C11_Witness ==
    /\ Finished
    /\ delimiter = <<Comma>>
    /\ value = <<LetterA, CR, LetterA, CR, LF>>
    /\ result = Ok(<< <<LetterA, CR, LetterA>> >>)

====
